---- MODULE Spec2Model ----
(***************************************************************************)
(* Model of the clinical-coordination canister                             *)
(* (src/src/dfinity_js_backend/src/index.ts, second Canister definition,   *)
(* lines 358-793): five StableBTreeMap stores and the update/query methods *)
(* built on them.                                                          *)
(*                                                                         *)
(* Texts are sequences of one-character strings, so that toLowerCase and   *)
(* includes are computed rather than assumed.  A call is one atomic step   *)
(* that leaves its reply in `response`; Respond hands the reply to the     *)
(* caller and the canister is ready for the next call.                     *)
(***************************************************************************)
EXTENDS Integers, Sequences, FiniteSets, TLC

VARIABLES Departments, Doctors, Patients, Consultations, Chats, issued, removed,
          response

vars == <<Departments, Doctors, Patients, Consultations, Chats, issued, removed,
          response>>
stores == <<Departments, Doctors, Patients, Consultations, Chats>>

----------------------------------------------------------------------------
(* Bounds of the model *)

\* number of identifiers uuidv4() can hand out in one run
MaxIds == 2
\* largest patient age a caller sends
MaxAge == 1

----------------------------------------------------------------------------
(* Texts, principals, identifiers *)

Digit == <<"1", "2", "3", "4", "5", "6", "7", "8", "9">>

\* the i-th identifier uuidv4() can produce, as a text
uuid(i) == <<"u", Digit[i]>>

Uuids == {uuid(i) : i \in 1..MaxIds}

\* callers of the canister (ic.caller())
Principals == {"p1", "p2"}

\* Principal.toText(): the textual form of a principal, one per principal
toText(p) == <<p>>

\* texts a caller sends
Names == {<<>>, <<"D", "o">>, <<"r", "o">>}
Refs == {<<>>, uuid(1), uuid(2)}
OneRef == {<<>>, uuid(1)}
Images == {<<>>, <<"a">>, <<"b">>}
Words == {<<>>, <<"w">>}
Queries == {<<>>, <<"o">>, <<"d", "o">>, <<"R", "O">>, <<"o", "d">>}
Ages == 0..MaxAge

\* String.prototype.toLowerCase, one character
LowerChar(c) ==
    CASE c = "D" -> "d"
      [] c = "R" -> "r"
      [] c = "O" -> "o"
      [] OTHER -> c

\* a comparison that keeps the case
toLowerCase_identity(s) == s

\* String.prototype.toLowerCase
toLowerCase(s) == [i \in 1..Len(s) |-> LowerChar(s[i])]

\* String.prototype.includes
includes(s, q) ==
    \E i \in 0..(Len(s) - Len(q)) : SubSeq(s, i + 1, i + Len(q)) = q

\* !text : the empty string is the only falsy text
Falsy(t) == t = <<>>

\* value === undefined : a decoded nat64 is never undefined
IsUndefined(v) == v \notin Nat

----------------------------------------------------------------------------
(* Records, results *)

DepartmentFields == {"id", "name"}
DoctorFields == {"id", "owner", "name", "department_id", "image"}
PatientFields == {"id", "owner", "name", "age"}
ConsultationFields == {"id", "patient_id", "problem", "department_id"}
ChatFields == {"id", "patient_id", "doctor_id", "message", "timestamp"}

CreateDepartmentPayload == [name : Names]
CreateDoctorPayload == [name : Names, department_id : Refs, image : Images]
CreatePatientPayload == [name : Names, age : Ages]
CreateConsultationPayload ==
    [patient_id : Refs, problem : Words, department_id : OneRef]
CreateChatPayload ==
    [patient_id : OneRef, doctor_id : OneRef, message : Words, timestamp : Words]

\* the spread written the other way round: { ...b, ...a }
Spread_reversed(a, b) ==
    [f \in (DOMAIN a) \cup (DOMAIN b) |-> IF f \in DOMAIN a THEN a[f] ELSE b[f]]

\* { ...a, ...b } : the fields of b over those of a
Spread(a, b) ==
    [f \in (DOMAIN a) \cup (DOMAIN b) |-> IF f \in DOMAIN b THEN b[f] ELSE a[f]]

\* Candid encoding of an object as a Record type: the declared fields only
Encode(fields, obj) == [f \in fields |-> obj[f]]

Ok(v) == [tag |-> "Ok", val |-> v]
Err(kind, msg) == [tag |-> "Err", kind |-> kind, msg |-> msg]
Success(msg) == [Success |-> msg]

MissingRequiredFields == Err("InvalidPayload", <<"Missing required fields">>)

----------------------------------------------------------------------------
(* StableBTreeMap *)

\* insert with the write left out
insert_forgotten(map, fields, key, value) == map

\* map.insert(key, value), the value encoded as the map's value type
insert(map, fields, key, value) ==
    [k \in (DOMAIN map) \cup {key} |->
        IF k = key THEN Encode(fields, value) ELSE map[k]]

\* remove clearing the whole map
remove_everything(map, key) == [k \in {} |-> <<>>]

\* remove with the removal left out
remove_forgotten(map, key) == map

\* map.remove(key)
remove(map, key) == [k \in (DOMAIN map) \ {key} |-> map[k]]

\* map.get(key) is None
IsNone(map, key) == key \notin DOMAIN map

RECURSIVE valuesFrom(_, _)
valuesFrom(map, i) ==
    IF i > MaxIds THEN <<>>
    ELSE (IF uuid(i) \in DOMAIN map THEN <<map[uuid(i)]>> ELSE <<>>)
             \o valuesFrom(map, i + 1)

\* values() losing the record under the first key
values_skipFirst(map) == valuesFrom(map, 2)

\* map.values(): the stored values in key order
values(map) == valuesFrom(map, 1)

EmptyMap == [k \in {} |-> <<>>]

----------------------------------------------------------------------------
(* Department *)

\* createDepartment(payload), uuidv4() returning departmentId
createDepartmentCall(payload, departmentId) ==
    IF Falsy(payload.name)
    THEN [res |-> MissingRequiredFields, store |-> Departments]
    ELSE LET department == Spread([id |-> departmentId], payload)
         IN  [res |-> Ok(Encode(DepartmentFields, department)),
              store |-> insert(Departments, DepartmentFields, departmentId, department)]

getDepartmentByIdCall(departmentId) ==
    IF IsNone(Departments, departmentId)
    THEN Err("NotFound", <<"Department with id=">> \o departmentId \o <<" not found">>)
    ELSE Ok(Departments[departmentId])

getAllDepartmentsCall ==
    LET departments == values(Departments)
    IN  IF Len(departments) = 0
        THEN Err("NotFound", <<"No departments found">>)
        ELSE Ok(departments)

searchDepartmentByNameCall(name) ==
    LET Matches(department) ==
            includes(toLowerCase(department.name), toLowerCase(name))
        matchingDepartments == SelectSeq(values(Departments), Matches)
    IN  IF Len(matchingDepartments) = 0
        THEN Err("NotFound",
                 <<"No departments found with name containing '">> \o name \o <<"'">>)
        ELSE Ok(matchingDepartments)

deleteDepartmentCall(departmentId) ==
    IF IsNone(Departments, departmentId)
    THEN [res |-> Err("NotFound",
                      <<"Department with id=">> \o departmentId \o <<" not found">>),
          store |-> Departments]
    ELSE [res |-> Ok(Success(<<"Department with id=">> \o departmentId
                                 \o <<" deleted successfully">>)),
          store |-> remove(Departments, departmentId)]

----------------------------------------------------------------------------
(* Doctor *)

\* the required-field test of createDoctor
MissingDoctorFields(payload) ==
    Falsy(payload.name) \/ Falsy(payload.department_id) \/ Falsy(payload.image)

\* the uniqueness scan counting deleted doctors as well
nameExists_includingRemoved(payload) ==
    LET doctorProfiles == values(Doctors)
    IN  \/ \E i \in 1..Len(doctorProfiles) :
               /\ doctorProfiles[i].name = payload.name
               /\ doctorProfiles[i].department_id = payload.department_id
        \/ \E t \in removed.DoctorPairs :
               /\ t.name = payload.name
               /\ t.department_id = payload.department_id

\* the uniqueness scan comparing the image as well
nameExists_withImage(payload) ==
    LET doctorProfiles == values(Doctors)
    IN  \E i \in 1..Len(doctorProfiles) :
            /\ doctorProfiles[i].name = payload.name
            /\ doctorProfiles[i].department_id = payload.department_id
            /\ doctorProfiles[i].image = payload.image

\* the uniqueness scan of createDoctor
nameExists(payload) ==
    LET doctorProfiles == values(Doctors)
    IN  \E i \in 1..Len(doctorProfiles) :
            /\ doctorProfiles[i].name = payload.name
            /\ doctorProfiles[i].department_id = payload.department_id

\* createDoctor storing the record under its department_id
createDoctorCall_keyedByDepartment(payload, caller, doctorId) ==
    IF MissingDoctorFields(payload)
    THEN [res |-> MissingRequiredFields, store |-> Doctors]
    ELSE IF nameExists(payload)
    THEN [res |-> Err("InvalidPayload",
                      <<"Doctor with this name already exists in the department">>),
          store |-> Doctors]
    ELSE LET doctor == Spread(Spread([id |-> doctorId], payload), [owner |-> caller])
         IN  [res |-> Ok(Encode(DoctorFields, doctor)),
              store |-> insert(Doctors, DoctorFields, payload.department_id, doctor)]

\* createDoctor writing the record before the uniqueness scan rejects it
createDoctorCall_insertFirst(payload, caller, doctorId) ==
    IF MissingDoctorFields(payload)
    THEN [res |-> MissingRequiredFields, store |-> Doctors]
    ELSE LET doctor == Spread(Spread([id |-> doctorId], payload), [owner |-> caller])
             written == insert(Doctors, DoctorFields, doctorId, doctor)
         IN  IF nameExists(payload)
             THEN [res |-> Err("InvalidPayload",
                         <<"Doctor with this name already exists in the department">>),
                   store |-> written]
             ELSE [res |-> Ok(Encode(DoctorFields, doctor)), store |-> written]

\* createDoctor(payload) called by caller, uuidv4() returning doctorId
createDoctorCall(payload, caller, doctorId) ==
    IF MissingDoctorFields(payload)
    THEN [res |-> MissingRequiredFields, store |-> Doctors]
    ELSE IF nameExists(payload)
    THEN [res |-> Err("InvalidPayload",
                      <<"Doctor with this name already exists in the department">>),
          store |-> Doctors]
    ELSE LET doctor == Spread(Spread([id |-> doctorId], payload), [owner |-> caller])
         IN  [res |-> Ok(Encode(DoctorFields, doctor)),
              store |-> insert(Doctors, DoctorFields, doctorId, doctor)]

getDoctorByIdCall(doctorId) ==
    IF IsNone(Doctors, doctorId)
    THEN Err("NotFound", <<"Doctor with id=">> \o doctorId \o <<" not found">>)
    ELSE Ok(Doctors[doctorId])

\* the owner lookup answering with the last match
getDoctorByOwnerCall_last(caller) ==
    LET Owned(doctor) == toText(doctor.owner) = toText(caller)
        doctorProfiles == SelectSeq(values(Doctors), Owned)
    IN  IF Len(doctorProfiles) = 0
        THEN Err("NotFound",
                 <<"Doctor profile for owner=">> \o toText(caller) \o <<" not found">>)
        ELSE Ok(doctorProfiles[Len(doctorProfiles)])

getDoctorByOwnerCall(caller) ==
    LET Owned(doctor) == toText(doctor.owner) = toText(caller)
        doctorProfiles == SelectSeq(values(Doctors), Owned)
    IN  IF Len(doctorProfiles) = 0
        THEN Err("NotFound",
                 <<"Doctor profile for owner=">> \o toText(caller) \o <<" not found">>)
        ELSE Ok(doctorProfiles[1])

getAllDoctorsCall ==
    LET doctors == values(Doctors)
    IN  IF Len(doctors) = 0
        THEN Err("NotFound", <<"No doctors found">>)
        ELSE Ok(doctors)

searchDoctorByNameCall(name) ==
    LET Matches(doctor) == includes(toLowerCase(doctor.name), toLowerCase(name))
        matchingDoctors == SelectSeq(values(Doctors), Matches)
    IN  IF Len(matchingDoctors) = 0
        THEN Err("NotFound",
                 <<"No doctors found with name containing '">> \o name \o <<"'">>)
        ELSE Ok(matchingDoctors)

updateDoctorCall(doctorId, payload) ==
    IF IsNone(Doctors, doctorId)
    THEN [res |-> Err("NotFound", <<"Doctor with id=">> \o doctorId \o <<" not found">>),
          store |-> Doctors]
    ELSE LET updatedDoctor == Spread(Doctors[doctorId], payload)
         IN  [res |-> Ok(Encode(DoctorFields, updatedDoctor)),
              store |-> insert(Doctors, DoctorFields, doctorId, updatedDoctor)]

updateDoctorAvailabilityCall(doctorId, availability) ==
    IF IsNone(Doctors, doctorId)
    THEN [res |-> Err("NotFound", <<"Doctor with id=">> \o doctorId \o <<" not found">>),
          store |-> Doctors]
    ELSE LET updatedDoctor == Spread(Doctors[doctorId], [available |-> availability])
         IN  [res |-> Ok(Encode(DoctorFields, updatedDoctor)),
              store |-> insert(Doctors, DoctorFields, doctorId, updatedDoctor)]

deleteDoctorCall(doctorId) ==
    IF IsNone(Doctors, doctorId)
    THEN [res |-> Err("NotFound", <<"Doctor with id=">> \o doctorId \o <<" not found">>),
          store |-> Doctors]
    ELSE [res |-> Ok(Success(<<"Doctor with id=">> \o doctorId
                                 \o <<" deleted successfully">>)),
          store |-> remove(Doctors, doctorId)]

----------------------------------------------------------------------------
(* Patient *)

\* the required-field test written !payload.age, which rejects age 0
MissingPatientFields_ageFalsy(payload) ==
    Falsy(payload.name) \/ payload.age = 0

\* the required-field test of createPatient
MissingPatientFields(payload) ==
    Falsy(payload.name) \/ IsUndefined(payload.age)

\* createPatient(payload) called by caller, uuidv4() returning patientId
createPatientCall(payload, caller, patientId) ==
    IF MissingPatientFields(payload)
    THEN [res |-> MissingRequiredFields, store |-> Patients]
    ELSE LET patient == Spread(payload, [id |-> patientId, owner |-> caller])
         IN  [res |-> Ok(Encode(PatientFields, patient)),
              store |-> insert(Patients, PatientFields, patientId, patient)]

getPatientByIdCall(patientId) ==
    IF IsNone(Patients, patientId)
    THEN Err("NotFound", <<"Patient with id=">> \o patientId \o <<" not found">>)
    ELSE Ok(Patients[patientId])

getPatientByOwnerCall(caller) ==
    LET Owned(patient) == toText(patient.owner) = toText(caller)
        patientProfiles == SelectSeq(values(Patients), Owned)
    IN  IF Len(patientProfiles) = 0
        THEN Err("NotFound",
                 <<"Patient profile for owner=">> \o toText(caller) \o <<" not found">>)
        ELSE Ok(patientProfiles[1])

getAllPatientsCall ==
    LET patients == values(Patients)
    IN  IF Len(patients) = 0
        THEN Err("NotFound", <<"No patients found">>)
        ELSE Ok(patients)

updatePatientCall(patientId, payload) ==
    IF IsNone(Patients, patientId)
    THEN [res |-> Err("NotFound", <<"Patient with id=">> \o patientId \o <<" not found">>),
          store |-> Patients]
    ELSE LET updatedPatient == Spread(Patients[patientId], payload)
         IN  [res |-> Ok(Encode(PatientFields, updatedPatient)),
              store |-> insert(Patients, PatientFields, patientId, updatedPatient)]

\* deletePatient reporting an absent id under the Error tag
deletePatientCall_errorTag(patientId) ==
    IF IsNone(Patients, patientId)
    THEN [res |-> Err("Error", <<"Patient with id=">> \o patientId \o <<" not found">>),
          store |-> Patients]
    ELSE [res |-> Ok(Success(<<"Patient with id=">> \o patientId
                                 \o <<" deleted successfully">>)),
          store |-> remove(Patients, patientId)]

deletePatientCall(patientId) ==
    IF IsNone(Patients, patientId)
    THEN [res |-> Err("NotFound", <<"Patient with id=">> \o patientId \o <<" not found">>),
          store |-> Patients]
    ELSE [res |-> Ok(Success(<<"Patient with id=">> \o patientId
                                 \o <<" deleted successfully">>)),
          store |-> remove(Patients, patientId)]

----------------------------------------------------------------------------
(* Consultation *)

\* the required-field test of createConsultation
MissingConsultationFields(payload) ==
    Falsy(payload.patient_id) \/ Falsy(payload.problem) \/ Falsy(payload.department_id)

\* createConsultation storing the record under its patient_id
createConsultationCall_keyedByPatient(payload, consultationId) ==
    IF MissingConsultationFields(payload)
    THEN [res |-> MissingRequiredFields, store |-> Consultations]
    ELSE LET consultation == Spread(payload, [id |-> consultationId])
         IN  [res |-> Ok(Encode(ConsultationFields, consultation)),
              store |-> insert(Consultations, ConsultationFields,
                               payload.patient_id, consultation)]

\* createConsultation(payload), uuidv4() returning consultationId
createConsultationCall(payload, consultationId) ==
    IF MissingConsultationFields(payload)
    THEN [res |-> MissingRequiredFields, store |-> Consultations]
    ELSE LET consultation == Spread(payload, [id |-> consultationId])
         IN  [res |-> Ok(Encode(ConsultationFields, consultation)),
              store |-> insert(Consultations, ConsultationFields,
                               consultationId, consultation)]

getConsultationByIdCall(consultationId) ==
    IF IsNone(Consultations, consultationId)
    THEN Err("NotFound",
             <<"Consultation with id=">> \o consultationId \o <<" not found">>)
    ELSE Ok(Consultations[consultationId])

getAllConsultationsCall ==
    LET consultations == values(Consultations)
    IN  IF Len(consultations) = 0
        THEN Err("NotFound", <<"No consultations found">>)
        ELSE Ok(consultations)

getConsultationHistoryByPatientCall(patientId) ==
    LET OfPatient(consultation) == consultation.patient_id = patientId
        consultations == SelectSeq(values(Consultations), OfPatient)
    IN  IF Len(consultations) = 0
        THEN Err("NotFound",
                 <<"No consultations found for patient id=">> \o patientId)
        ELSE Ok(consultations)

----------------------------------------------------------------------------
(* Chat *)

\* the required-field test of createChat
MissingChatFields(payload) ==
    Falsy(payload.patient_id) \/ Falsy(payload.doctor_id)
        \/ Falsy(payload.message) \/ Falsy(payload.timestamp)

\* createChat(payload), uuidv4() returning chatId
createChatCall(payload, chatId) ==
    IF MissingChatFields(payload)
    THEN [res |-> MissingRequiredFields, store |-> Chats]
    ELSE LET chat == Spread(payload, [id |-> chatId])
         IN  [res |-> Ok(Encode(ChatFields, chat)),
              store |-> insert(Chats, ChatFields, chatId, chat)]

getChatByIdCall(chatId) ==
    IF IsNone(Chats, chatId)
    THEN Err("NotFound", <<"Chat with id=">> \o chatId \o <<" not found">>)
    ELSE Ok(Chats[chatId])

getAllChatsCall ==
    LET chats == values(Chats)
    IN  IF Len(chats) = 0
        THEN Err("NotFound", <<"No chats found">>)
        ELSE Ok(chats)

----------------------------------------------------------------------------
(* The canister: one atomic step per call *)

NoCall == [op |-> "none"]

Idle == response = NoCall

\* identifiers uuidv4() has not produced yet
Fresh == Uuids \ DOMAIN issued

\* uuidv4() produced id for a record of the given entity; `issued` keeps the
\* identifiers handed out so far, `removed` those a delete call took out of a
\* store (for a doctor, with the name and department_id it had)
Issue(entity, id) ==
    [k \in (DOMAIN issued) \cup {id} |-> IF k = id THEN entity ELSE issued[k]]

Init ==
    /\ Departments = EmptyMap
    /\ Doctors = EmptyMap
    /\ Patients = EmptyMap
    /\ Consultations = EmptyMap
    /\ Chats = EmptyMap
    /\ issued = EmptyMap
    /\ removed = [entity \in {"Department", "Doctor", "DoctorPairs", "Patient"} |-> {}]
    /\ response = NoCall

\* the reply reaches the caller
Respond ==
    /\ ~Idle
    /\ response' = NoCall
    /\ UNCHANGED <<stores, issued, removed>>

createDepartment ==
    \E payload \in CreateDepartmentPayload, id \in Uuids :
        LET r == createDepartmentCall(payload, id)
        IN  /\ Idle
            /\ IF r.res.tag = "Ok" THEN id \in Fresh ELSE id = uuid(1)
            /\ Departments' = r.store
            /\ issued' = IF r.res.tag = "Ok" THEN Issue("Department", id) ELSE issued
            /\ response' = [op |-> "createDepartment", arg |-> [payload |-> payload],
                            res |-> r.res]
            /\ UNCHANGED <<Doctors, Patients, Consultations, Chats, removed>>

getDepartmentById ==
    \E id \in Uuids :
        /\ Idle
        /\ response' = [op |-> "getDepartmentById", arg |-> [id |-> id],
                        res |-> getDepartmentByIdCall(id)]
        /\ UNCHANGED <<stores, issued, removed>>

getAllDepartments ==
    /\ Idle
    /\ response' = [op |-> "getAllDepartments", arg |-> [none |-> TRUE],
                    res |-> getAllDepartmentsCall]
    /\ UNCHANGED <<stores, issued, removed>>

searchDepartmentByName ==
    \E name \in Queries :
        /\ Idle
        /\ response' = [op |-> "searchDepartmentByName", arg |-> [name |-> name],
                        res |-> searchDepartmentByNameCall(name)]
        /\ UNCHANGED <<stores, issued, removed>>

deleteDepartment ==
    \E id \in Uuids :
        LET r == deleteDepartmentCall(id)
        IN  /\ Idle
            /\ Departments' = r.store
            /\ response' = [op |-> "deleteDepartment", arg |-> [id |-> id], res |-> r.res]
            /\ removed' = IF r.res.tag = "Ok"
                           THEN [removed EXCEPT !.Department = @ \cup {id}]
                           ELSE removed
            /\ UNCHANGED <<Doctors, Patients, Consultations, Chats, issued>>

createDoctor ==
    \E payload \in CreateDoctorPayload, caller \in Principals, id \in Uuids :
        LET r == createDoctorCall(payload, caller, id)
        IN  /\ Idle
            /\ IF r.res.tag = "Ok" THEN id \in Fresh ELSE id = uuid(1)
            /\ Doctors' = r.store
            /\ issued' = IF r.res.tag = "Ok" THEN Issue("Doctor", id) ELSE issued
            /\ response' = [op |-> "createDoctor",
                            arg |-> [payload |-> payload, caller |-> caller],
                            res |-> r.res]
            /\ UNCHANGED <<Departments, Patients, Consultations, Chats, removed>>

getDoctorById ==
    \E id \in Uuids : /\ Idle
        /\ response' = [op |-> "getDoctorById", arg |-> [id |-> id],
                        res |-> getDoctorByIdCall(id)]
        /\ UNCHANGED <<stores, issued, removed>>

getDoctorByOwner ==
    \E caller \in Principals :
        /\ Idle
        /\ response' = [op |-> "getDoctorByOwner", arg |-> [caller |-> caller],
                        res |-> getDoctorByOwnerCall(caller)]
        /\ UNCHANGED <<stores, issued, removed>>

getAllDoctors ==
    /\ Idle
    /\ response' = [op |-> "getAllDoctors", arg |-> [none |-> TRUE],
                    res |-> getAllDoctorsCall]
    /\ UNCHANGED <<stores, issued, removed>>

searchDoctorByName ==
    \E name \in Queries :
        /\ Idle
        /\ response' = [op |-> "searchDoctorByName", arg |-> [name |-> name],
                        res |-> searchDoctorByNameCall(name)]
        /\ UNCHANGED <<stores, issued, removed>>

updateDoctor ==
    \E id \in Uuids, payload \in CreateDoctorPayload :
        LET r == updateDoctorCall(id, payload)
        IN  /\ Idle
            /\ Doctors' = r.store
            /\ response' = [op |-> "updateDoctor",
                            arg |-> [id |-> id, payload |-> payload], res |-> r.res]
            /\ UNCHANGED <<Departments, Patients, Consultations, Chats, issued, removed>>

updateDoctorAvailability ==
    \E id \in Uuids, availability \in BOOLEAN :
        LET r == updateDoctorAvailabilityCall(id, availability)
        IN  /\ Idle
            /\ Doctors' = r.store
            /\ response' = [op |-> "updateDoctorAvailability",
                            arg |-> [id |-> id, availability |-> availability],
                            res |-> r.res]
            /\ UNCHANGED <<Departments, Patients, Consultations, Chats, issued, removed>>

deleteDoctor ==
    \E id \in Uuids :
        LET r == deleteDoctorCall(id)
        IN  /\ Idle
            /\ Doctors' = r.store
            /\ response' = [op |-> "deleteDoctor", arg |-> [id |-> id], res |-> r.res]
            /\ removed' = IF r.res.tag = "Ok"
                           THEN [removed EXCEPT
                                     !.Doctor = @ \cup {id},
                                     !.DoctorPairs = @ \cup
                                         {[id |-> id, name |-> Doctors[id].name,
                                           department_id |-> Doctors[id].department_id]}]
                           ELSE removed
            /\ UNCHANGED <<Departments, Patients, Consultations, Chats, issued>>

createPatient ==
    \E payload \in CreatePatientPayload, caller \in Principals, id \in Uuids :
        LET r == createPatientCall(payload, caller, id)
        IN  /\ Idle
            /\ IF r.res.tag = "Ok" THEN id \in Fresh ELSE id = uuid(1)
            /\ Patients' = r.store
            /\ issued' = IF r.res.tag = "Ok" THEN Issue("Patient", id) ELSE issued
            /\ response' = [op |-> "createPatient",
                            arg |-> [payload |-> payload, caller |-> caller],
                            res |-> r.res]
            /\ UNCHANGED <<Departments, Doctors, Consultations, Chats, removed>>

getPatientById ==
    \E id \in Uuids : /\ Idle
        /\ response' = [op |-> "getPatientById", arg |-> [id |-> id],
                        res |-> getPatientByIdCall(id)]
        /\ UNCHANGED <<stores, issued, removed>>

getPatientByOwner ==
    \E caller \in Principals :
        /\ Idle
        /\ response' = [op |-> "getPatientByOwner", arg |-> [caller |-> caller],
                        res |-> getPatientByOwnerCall(caller)]
        /\ UNCHANGED <<stores, issued, removed>>

getAllPatients ==
    /\ Idle
    /\ response' = [op |-> "getAllPatients", arg |-> [none |-> TRUE],
                    res |-> getAllPatientsCall]
    /\ UNCHANGED <<stores, issued, removed>>

updatePatient ==
    \E id \in Uuids, payload \in CreatePatientPayload :
        LET r == updatePatientCall(id, payload)
        IN  /\ Idle
            /\ Patients' = r.store
            /\ response' = [op |-> "updatePatient",
                            arg |-> [id |-> id, payload |-> payload], res |-> r.res]
            /\ UNCHANGED <<Departments, Doctors, Consultations, Chats, issued, removed>>

deletePatient ==
    \E id \in Uuids :
        LET r == deletePatientCall(id)
        IN  /\ Idle
            /\ Patients' = r.store
            /\ response' = [op |-> "deletePatient", arg |-> [id |-> id], res |-> r.res]
            /\ removed' = IF r.res.tag = "Ok"
                           THEN [removed EXCEPT !.Patient = @ \cup {id}]
                           ELSE removed
            /\ UNCHANGED <<Departments, Doctors, Consultations, Chats, issued>>

createConsultation ==
    \E payload \in CreateConsultationPayload, id \in Uuids :
        LET r == createConsultationCall(payload, id)
        IN  /\ Idle
            /\ IF r.res.tag = "Ok" THEN id \in Fresh ELSE id = uuid(1)
            /\ Consultations' = r.store
            /\ issued' = IF r.res.tag = "Ok" THEN Issue("Consultation", id) ELSE issued
            /\ response' = [op |-> "createConsultation", arg |-> [payload |-> payload],
                            res |-> r.res]
            /\ UNCHANGED <<Departments, Doctors, Patients, Chats, removed>>

getConsultationById ==
    \E id \in Uuids :
        /\ Idle
        /\ response' = [op |-> "getConsultationById", arg |-> [id |-> id],
                        res |-> getConsultationByIdCall(id)]
        /\ UNCHANGED <<stores, issued, removed>>

getAllConsultations ==
    /\ Idle
        /\ response' = [op |-> "getAllConsultations", arg |-> [none |-> TRUE],
                        res |-> getAllConsultationsCall]
        /\ UNCHANGED <<stores, issued, removed>>

getConsultationHistoryByPatient ==
    \E id \in Refs :
        /\ Idle
        /\ response' = [op |-> "getConsultationHistoryByPatient", arg |-> [id |-> id],
                        res |-> getConsultationHistoryByPatientCall(id)]
        /\ UNCHANGED <<stores, issued, removed>>

createChat ==
    \E payload \in CreateChatPayload, id \in Uuids :
        LET r == createChatCall(payload, id)
        IN  /\ Idle
            /\ IF r.res.tag = "Ok" THEN id \in Fresh ELSE id = uuid(1)
            /\ Chats' = r.store
            /\ issued' = IF r.res.tag = "Ok" THEN Issue("Chat", id) ELSE issued
            /\ response' = [op |-> "createChat", arg |-> [payload |-> payload],
                            res |-> r.res]
            /\ UNCHANGED <<Departments, Doctors, Patients, Consultations, removed>>

getChatById ==
    \E id \in Uuids : /\ Idle
        /\ response' = [op |-> "getChatById", arg |-> [id |-> id],
                        res |-> getChatByIdCall(id)]
        /\ UNCHANGED <<stores, issued, removed>>

getAllChats ==
    /\ Idle
    /\ response' = [op |-> "getAllChats", arg |-> [none |-> TRUE],
                    res |-> getAllChatsCall]
    /\ UNCHANGED <<stores, issued, removed>>

Next ==
    \/ Respond
    \/ createDepartment \/ getDepartmentById \/ getAllDepartments
    \/ searchDepartmentByName \/ deleteDepartment
    \/ createDoctor \/ getDoctorById \/ getDoctorByOwner \/ getAllDoctors
    \/ searchDoctorByName \/ updateDoctor \/ updateDoctorAvailability \/ deleteDoctor
    \/ createPatient \/ getPatientById \/ getPatientByOwner \/ getAllPatients
    \/ updatePatient \/ deletePatient
    \/ createConsultation \/ getConsultationById \/ getAllConsultations
    \/ getConsultationHistoryByPatient
    \/ createChat \/ getChatById \/ getAllChats

Spec == Init /\ [][Next]_vars

----------------------------------------------------------------------------
(* Vocabulary of the properties *)

\* the call whose reply is in flight
Called(op) == response.op = op
Returned(op) == response.op = op /\ response.res.tag = "Ok"
Failed(op, kind) ==
    response.op = op /\ response.res.tag = "Err" /\ response.res.kind = kind

\* a step in which the canister executes the call op
Executes(op) == response.op = "none" /\ response'.op = op

\* position of a key in the key order of a store
KeyIndex(key) == CHOOSE i \in 1..MaxIds : uuid(i) = key

SamePair(a, b) == a.name = b.name /\ a.department_id = b.department_id

----------------------------------------------------------------------------
(* C1: whenever createX has returned Ok(result), X any of Department,      *)
(* Doctor, Patient, Consultation, Chat, a getXById(result.id) made next    *)
(* returns Ok of a record equal to result; for Doctor and Patient the      *)
(* owner of result is the caller of createX.                               *)
CreateThenGetById ==
    /\ Returned("createDepartment") =>
           getDepartmentByIdCall(response.res.val.id) = Ok(response.res.val)
    /\ Returned("createDoctor") =>
           /\ getDoctorByIdCall(response.res.val.id) = Ok(response.res.val)
           /\ response.res.val.owner = response.arg.caller
    /\ Returned("createPatient") =>
           /\ getPatientByIdCall(response.res.val.id) = Ok(response.res.val)
           /\ response.res.val.owner = response.arg.caller
    /\ Returned("createConsultation") =>
           getConsultationByIdCall(response.res.val.id) = Ok(response.res.val)
    /\ Returned("createChat") =>
           getChatByIdCall(response.res.val.id) = Ok(response.res.val)

\* a second doctor has just been created, by p2, beside an earlier one
CreateThenGetById_Witness ==
    /\ Returned("createDoctor")
    /\ response.arg.caller = "p2"
    /\ Cardinality(DOMAIN Doctors) = 2
    /\ response.res.val.id \in DOMAIN Doctors

----------------------------------------------------------------------------
(* C2: a createDoctor call whose (name, department_id) equals that of a    *)
(* Doctor in the store returns Err InvalidPayload, whatever the image and  *)
(* the caller, and leaves the Doctors store as it was.                     *)
DuplicateDoctorRejected ==
    [][(Executes("createDoctor")
            /\ \E k \in DOMAIN Doctors : SamePair(Doctors[k], response'.arg.payload))
          => (/\ response'.res.tag = "Err"
              /\ response'.res.kind = "InvalidPayload"
              /\ Doctors' = Doctors)]_vars

\* a duplicate pair was rejected although image and caller differ from the
\* stored doctor's
DuplicateDoctorRejected_Witness ==
    /\ Failed("createDoctor", "InvalidPayload")
    /\ \E k \in DOMAIN Doctors :
           /\ SamePair(Doctors[k], response.arg.payload)
           /\ Doctors[k].image # response.arg.payload.image
           /\ response.arg.payload.image # <<>>
           /\ Doctors[k].owner # response.arg.caller

----------------------------------------------------------------------------
(* C3: no two distinct records of the Doctors store share the same         *)
(* (name, department_id) pair, in any reachable state.                     *)
DoctorPairsUnique ==
    \A k1 \in DOMAIN Doctors, k2 \in DOMAIN Doctors :
        k1 # k2 => ~SamePair(Doctors[k1], Doctors[k2])

----------------------------------------------------------------------------
(* C4: getAllX returns Err NotFound exactly when X's store is empty, and   *)
(* otherwise Ok of a collection holding each stored record once and        *)
(* nothing else.                                                           *)
GetAllAgrees(op, store) ==
    Called(op) =>
        IF DOMAIN store = {}
        THEN response.res.tag = "Err" /\ response.res.kind = "NotFound"
        ELSE /\ response.res.tag = "Ok"
             /\ Len(response.res.val) = Cardinality(DOMAIN store)
             /\ \A k \in DOMAIN store :
                    \E i \in 1..Len(response.res.val) : response.res.val[i] = store[k]

GetAllReturnsStore ==
    /\ GetAllAgrees("getAllDepartments", Departments)
    /\ GetAllAgrees("getAllDoctors", Doctors)
    /\ GetAllAgrees("getAllPatients", Patients)
    /\ GetAllAgrees("getAllConsultations", Consultations)
    /\ GetAllAgrees("getAllChats", Chats)

\* getAllDoctors answered with the single doctor stored, under the first key
GetAllReturnsStore_Witness ==
    /\ Returned("getAllDoctors")
    /\ DOMAIN Doctors = {uuid(1)}
    /\ response.res.val = <<Doctors[uuid(1)]>>

----------------------------------------------------------------------------
(* C5: once deleteX(id) has returned Ok, X any of Department, Doctor,      *)
(* Patient, getXById(id) returns Err NotFound and a further deleteX(id)    *)
(* returns Err NotFound and changes nothing (uuidv4() never hands the      *)
(* identifier out again).                                                  *)
IsNotFound(res) == res.tag = "Err" /\ res.kind = "NotFound"

DeletedStaysDeleted ==
    /\ \A id \in removed.Department :
           /\ IsNotFound(getDepartmentByIdCall(id))
           /\ IsNotFound(deleteDepartmentCall(id).res)
           /\ deleteDepartmentCall(id).store = Departments
    /\ \A id \in removed.Doctor :
           /\ IsNotFound(getDoctorByIdCall(id))
           /\ IsNotFound(deleteDoctorCall(id).res)
           /\ deleteDoctorCall(id).store = Doctors
    /\ \A id \in removed.Patient :
           /\ IsNotFound(getPatientByIdCall(id))
           /\ IsNotFound(deletePatientCall(id).res)
           /\ deletePatientCall(id).store = Patients

\* a second deleteDoctor of a deleted identifier has been answered
DeletedStaysDeleted_Witness ==
    /\ Failed("deleteDoctor", "NotFound")
    /\ response.arg.id \in removed.Doctor
    /\ DOMAIN Doctors # {}

----------------------------------------------------------------------------
(* C6: updatePatient / updateDoctor on an existing id stores, under id,    *)
(* the previous record with the payload's fields overwritten and every     *)
(* other field (id, owner) kept, and returns the stored record; on an      *)
(* absent id the call returns Err NotFound.                                *)
UpdateMergesIn(store, storeAfter, reply) ==
    LET id == reply.arg.id
        payload == reply.arg.payload
    IN  IF id \in DOMAIN store
        THEN /\ id \in DOMAIN storeAfter
             /\ DOMAIN storeAfter[id] = DOMAIN store[id]
             /\ \A f \in DOMAIN store[id] :
                    storeAfter[id][f] =
                        IF f \in DOMAIN payload THEN payload[f] ELSE store[id][f]
             /\ storeAfter[id].id = store[id].id
             /\ storeAfter[id].owner = store[id].owner
             /\ reply.res = Ok(storeAfter[id])
        ELSE IsNotFound(reply.res)

UpdateMergesPayload ==
    [][/\ Executes("updatePatient") => UpdateMergesIn(Patients, Patients', response')
       /\ Executes("updateDoctor") => UpdateMergesIn(Doctors, Doctors', response')]_vars

\* updatePatient has rewritten name and age of a patient that p2 owns
UpdateMergesPayload_Witness ==
    /\ Returned("updatePatient")
    /\ response.arg.payload = [name |-> <<"r", "o">>, age |-> 1]
    /\ Patients[response.arg.id] =
           [id |-> response.arg.id, owner |-> "p2", name |-> <<"r", "o">>, age |-> 1]

----------------------------------------------------------------------------
(* C7: searchDoctorByName(q) / searchDepartmentByName(q) return Ok of      *)
(* exactly the stored records whose name contains q as a contiguous        *)
(* substring, case ignored, and Err NotFound exactly when there is none.   *)
ContainsIgnoringCase(name, q) ==
    \E off \in 0..(Len(name) - Len(q)) :
        \A k \in 1..Len(q) : LowerChar(name[off + k]) = LowerChar(q[k])

SearchAgrees(op, store) ==
    Called(op) =>
        LET hits == {k \in DOMAIN store :
                         ContainsIgnoringCase(store[k].name, response.arg.name)}
        IN  IF hits = {}
            THEN IsNotFound(response.res)
            ELSE /\ response.res.tag = "Ok"
                 /\ Len(response.res.val) = Cardinality(hits)
                 /\ {response.res.val[i] : i \in 1..Len(response.res.val)}
                        = {store[k] : k \in hits}

SearchMatchesSubstring ==
    /\ SearchAgrees("searchDoctorByName", Doctors)
    /\ SearchAgrees("searchDepartmentByName", Departments)

\* "do" found the doctor named "Do" and not the one named "ro"
SearchMatchesSubstring_Witness ==
    /\ Returned("searchDoctorByName")
    /\ response.arg.name = <<"d", "o">>
    /\ Len(response.res.val) = 1
    /\ response.res.val[1].name = <<"D", "o">>
    /\ \E k \in DOMAIN Doctors : Doctors[k].name = <<"r", "o">>

----------------------------------------------------------------------------
(* C8: getDoctorByOwner / getPatientByOwner called by c return Err         *)
(* NotFound exactly when no stored record has owner c, and otherwise Ok of *)
(* the first record in store order whose owner is c.                       *)
OwnerAgrees(op, store) ==
    Called(op) =>
        LET owned == {k \in DOMAIN store : store[k].owner = response.arg.caller}
        IN  IF owned = {}
            THEN IsNotFound(response.res)
            ELSE /\ response.res.tag = "Ok"
                 /\ response.res.val.owner = response.arg.caller
                 /\ \E k \in owned :
                        /\ response.res.val = store[k]
                        /\ \A other \in owned : KeyIndex(k) <= KeyIndex(other)

OwnerLookupFirstMatch ==
    /\ OwnerAgrees("getDoctorByOwner", Doctors)
    /\ OwnerAgrees("getPatientByOwner", Patients)

\* the caller owns two doctors and got the one under the first key
OwnerLookupFirstMatch_Witness ==
    /\ Returned("getDoctorByOwner")
    /\ Cardinality({k \in DOMAIN Doctors : Doctors[k].owner = response.arg.caller}) = 2
    /\ response.res.val.id = uuid(1)

----------------------------------------------------------------------------
(* C9: a call that returns an error (InvalidPayload or NotFound) leaves    *)
(* all five stores exactly as they were.                                   *)
ErrorsChangeNothing ==
    [][(response'.op # "none" /\ response'.res.tag = "Err"
            /\ response'.res.kind \in {"InvalidPayload", "NotFound"})
          => stores' = stores]_vars

\* a duplicate createDoctor was refused while doctors and patients are stored
ErrorsChangeNothing_Witness ==
    /\ Failed("createDoctor", "InvalidPayload")
    /\ response.res.msg # <<"Missing required fields">>
    /\ DOMAIN Doctors # {}
    /\ DOMAIN Patients # {}

----------------------------------------------------------------------------
(* C10: createX returns Err InvalidPayload "Missing required fields"       *)
(* exactly when a required text field of the payload is empty; with all of *)
(* them non-empty (and, for Doctor, no stored record with the same name    *)
(* and department_id) it succeeds, createPatient with age 0 included.      *)
AnyEmpty(payload, fields) == \E f \in fields : payload[f] = <<>>

RequiredChecked(reply, fields, clash) ==
    /\ reply.res = Err("InvalidPayload", <<"Missing required fields">>)
           <=> AnyEmpty(reply.arg.payload, fields)
    /\ (~AnyEmpty(reply.arg.payload, fields) /\ ~clash) => reply.res.tag = "Ok"

RequiredFieldsChecked ==
    [][/\ Executes("createDepartment") =>
              RequiredChecked(response', {"name"}, FALSE)
       /\ Executes("createDoctor") =>
              RequiredChecked(response', {"name", "department_id", "image"},
                              \E k \in DOMAIN Doctors :
                                  SamePair(Doctors[k], response'.arg.payload))
       /\ Executes("createPatient") =>
              RequiredChecked(response', {"name"}, FALSE)
       /\ Executes("createConsultation") =>
              RequiredChecked(response', {"patient_id", "problem", "department_id"},
                              FALSE)
       /\ Executes("createChat") =>
              RequiredChecked(response',
                              {"patient_id", "doctor_id", "message", "timestamp"},
                              FALSE)]_vars

\* a patient of age 0 has been created
RequiredFieldsChecked_Witness ==
    /\ Returned("createPatient")
    /\ response.arg.payload.age = 0
    /\ Patients[response.res.val.id].age = 0

----------------------------------------------------------------------------
(* C11: in every store each record's id is the key it is stored under, and *)
(* the id of a stored record stays the same for as long as it is stored,   *)
(* whatever updates are made.                                              *)
IdIsKey(store) == \A k \in DOMAIN store : store[k].id = k

IdKept(store, storeAfter) ==
    \A k \in (DOMAIN store) \cap (DOMAIN storeAfter) : storeAfter[k].id = store[k].id

IdsAreKeysAndFixed ==
    [][/\ IdIsKey(Departments') /\ IdKept(Departments, Departments')
       /\ IdIsKey(Doctors') /\ IdKept(Doctors, Doctors')
       /\ IdIsKey(Patients') /\ IdKept(Patients, Patients')
       /\ IdIsKey(Consultations') /\ IdKept(Consultations, Consultations')
       /\ IdIsKey(Chats') /\ IdKept(Chats, Chats')]_vars

\* updateDoctor has rewritten one of two stored doctors
IdsAreKeysAndFixed_Witness ==
    /\ Returned("updateDoctor")
    /\ Cardinality(DOMAIN Doctors) = 2
    /\ Doctors[response.arg.id].id = response.arg.id
    /\ Doctors[response.arg.id].name = response.arg.payload.name

----------------------------------------------------------------------------
(* C12: every reply is Ok or an Err tagged NotFound or InvalidPayload (never *)
(* Error, PaymentFailed or PaymentCompleted), and a Success message is the   *)
(* Ok value of deleteDepartment, deleteDoctor and deletePatient only.        *)
DeleteOps == {"deleteDepartment", "deleteDoctor", "deletePatient"}

ListOps == {"getAllDepartments", "getAllDoctors", "getAllPatients",
            "getAllConsultations", "getAllChats",
            "getConsultationHistoryByPatient",
            "searchDoctorByName", "searchDepartmentByName"}

OnlyDeclaredReplies ==
    response.op # "none" =>
        /\ response.res.tag \in {"Ok", "Err"}
        /\ response.res.tag = "Err" =>
               response.res.kind \in {"NotFound", "InvalidPayload"}
        /\ response.res.tag = "Ok" =>
               IF response.op \in DeleteOps
               THEN DOMAIN response.res.val = {"Success"}
               ELSE IF response.op \in ListOps
               THEN \A i \in 1..Len(response.res.val) :
                        "Success" \notin DOMAIN response.res.val[i]
               ELSE "Success" \notin DOMAIN response.res.val

\* deletePatient has failed on an absent id while another patient is stored
OnlyDeclaredReplies_Witness ==
    /\ Failed("deletePatient", "NotFound")
    /\ Patients # EmptyMap

----------------------------------------------------------------------------
(* C13: a successful deleteDepartment, deleteDoctor or deletePatient of id *)
(* takes exactly the record under id out of its own store, keeps every     *)
(* other record of that store as it was and leaves the four other stores   *)
(* unchanged, so records that refer to the deleted id stay as they are.    *)
OnlyKeyRemoved(store, storeAfter, id) ==
    /\ id \in DOMAIN store
    /\ DOMAIN storeAfter = (DOMAIN store) \ {id}
    /\ \A k \in DOMAIN storeAfter : storeAfter[k] = store[k]

DeleteRemovesOnlyItsRecord ==
    [][/\ (Executes("deleteDepartment") /\ response'.res.tag = "Ok") =>
              /\ OnlyKeyRemoved(Departments, Departments', response'.arg.id)
              /\ UNCHANGED <<Doctors, Patients, Consultations, Chats>>
       /\ (Executes("deleteDoctor") /\ response'.res.tag = "Ok") =>
              /\ OnlyKeyRemoved(Doctors, Doctors', response'.arg.id)
              /\ UNCHANGED <<Departments, Patients, Consultations, Chats>>
       /\ (Executes("deletePatient") /\ response'.res.tag = "Ok") =>
              /\ OnlyKeyRemoved(Patients, Patients', response'.arg.id)
              /\ UNCHANGED <<Departments, Doctors, Consultations, Chats>>]_vars

\* a department has been deleted while a doctor of that department is
\* still stored
DeleteRemovesOnlyItsRecord_Witness ==
    /\ Returned("deleteDepartment")
    /\ response.arg.id \notin DOMAIN Departments
    /\ \E k \in DOMAIN Doctors : Doctors[k].department_id = response.arg.id

----------------------------------------------------------------------------
(* C14: consultations and chats are append-only. The record r returned by  *)
(* a successful createConsultation or createChat is what getXById(r.id)    *)
(* returns right after the call, and every step keeps, for each stored     *)
(* consultation and chat, the answer of getXById as it was: no operation    *)
(* changes or removes one.                                                 *)
ConsultationsAndChatsAppendOnly ==
    [][/\ (Executes("createConsultation") /\ response'.res.tag = "Ok") =>
              \E k \in Uuids : /\ k = response'.res.val.id
                               /\ getConsultationByIdCall(k)' = Ok(response'.res.val)
       /\ (Executes("createChat") /\ response'.res.tag = "Ok") =>
              \E k \in Uuids : /\ k = response'.res.val.id
                               /\ getChatByIdCall(k)' = Ok(response'.res.val)
       /\ \A k \in DOMAIN Consultations :
              getConsultationByIdCall(k)' = Ok(Consultations[k])
       /\ \A k \in DOMAIN Chats :
              getChatByIdCall(k)' = Ok(Chats[k])]_vars

\* the patient of a stored consultation has been deleted and the
\* consultation is still there
ConsultationsAndChatsAppendOnly_Witness ==
    /\ Returned("deletePatient")
    /\ \E k \in DOMAIN Consultations :
           /\ Consultations[k].patient_id = response.arg.id
           /\ getConsultationByIdCall(k) = Ok(Consultations[k])

----------------------------------------------------------------------------
(* C15: updateDoctorAvailability(id, b) on a stored id returns the Doctor  *)
(* record with its available field equal to b and stores it, so that       *)
(* getDoctorById(id) returns it with available = b; on an absent id it     *)
(* returns Err NotFound. The Doctor record type has no available field, so *)
(* the reply and the stored record never carry it: this does not hold.     *)
AvailabilityReturnedAndStored ==
    /\ Returned("updateDoctorAvailability") =>
           /\ "available" \in DOMAIN response.res.val
           /\ response.res.val.available = response.arg.availability
           /\ response.res.val.id = response.arg.id
           /\ getDoctorByIdCall(response.arg.id) = Ok(response.res.val)
    /\ (Called("updateDoctorAvailability") /\ response.res.tag = "Err") =>
           /\ response.res.kind = "NotFound"
           /\ response.arg.id \notin DOMAIN Doctors

----------------------------------------------------------------------------
(* C16: the uniqueness scan of createDoctor looks at stored doctors only.  *)
(* A createDoctor with all fields given, whose (name, department_id) pair  *)
(* was held by a doctor that deleteDoctor removed and is held by no stored *)
(* doctor, succeeds for any caller and stores the new record under an id   *)
(* that was never used before, so one different from the deleted doctor's. *)
PairFreedByDelete(payload) ==
    /\ ~MissingDoctorFields(payload)
    /\ \E t \in removed.DoctorPairs : SamePair(t, payload)
    /\ \A k \in DOMAIN Doctors : ~SamePair(Doctors[k], payload)

DeletedPairCanBeReused ==
    [][(Executes("createDoctor") /\ PairFreedByDelete(response'.arg.payload)) =>
           /\ response'.res.tag = "Ok"
           /\ SamePair(response'.res.val, response'.arg.payload)
           /\ response'.res.val.owner = response'.arg.caller
           /\ response'.res.val.id \notin removed.Doctor
           /\ response'.res.val.id \notin DOMAIN issued
           /\ response'.res.val.id \in DOMAIN Doctors'
           /\ Doctors'[response'.res.val.id] = response'.res.val]_vars

\* a doctor has been created with the pair of a deleted doctor
DeletedPairCanBeReused_Witness ==
    /\ Returned("createDoctor")
    /\ \E t \in removed.DoctorPairs :
           /\ SamePair(t, response.res.val)
           /\ t.id # response.res.val.id
           /\ t.id \notin DOMAIN Doctors
    /\ Doctors[response.res.val.id] = response.res.val

====
